---------------------------- MODULE Spec2Model ----------------------------
(***************************************************************************)
(* The multipart request processor of express-fileupload, in its two       *)
(* versions: src/unnamed/part_000 (aggregate size limit, flush barrier)    *)
(* and src/lib/processMultipart.js (per-part idle timer).  The variable    *)
(* impl says which of the two handles the request.                         *)
(*                                                                         *)
(* One action is one event delivered to one listener of the processor,     *)
(* the whole listener included.  What a listener does to the outside       *)
(* (cleanup(), next(), limitHandler(), req.unpipe(), res.writeHead() ...)  *)
(* is written as the ordered list of its calls, `effects`, and the         *)
(* counters are updated from that list.                                    *)
(*                                                                         *)
(* The decoder (busboy), the sinks (memHandler, tempFileHandler) and the   *)
(* helpers of utilities are outside the two files; they appear by their    *)
(* contracts: a part's events come as data* [limit] (end | error), 'data'  *)
(* and 'limit' only for the part being decoded, 'finish' after every       *)
(* part's last event.  The 'filesLimit' listener, which only hands over to *)
(* options.numFilesLimitHandler, is left out.  Time is not measured: a     *)
(* pending timeout of an idle timer may expire at any later point.         *)
(***************************************************************************)
EXTENDS Integers, Sequences, FiniteSets, TLC

\* ------------------------------------------------------------- bounds
MaxParts == 2
MaxChunkLen == 2
MaxEvents == 5
TotalCap == 3
FileCap == 2

\* ---------------------------------------------------- program constants
DefaultCloseCode == 400
LimitCloseCode == 413

Parts == 1..MaxParts
Undefined == 0 - 1
FileField == "photo"
BodyField == "tag"

VARIABLES
  impl,          \* "part_000" | "lib": which version of the processor runs
  options,       \* the options object handed to the processor
  header,        \* req.headers['content-length']
  phase,         \* "idle" | "rejected" | "streaming" | "crashed"
  wiring,        \* what the call constructed: abort listener, busboy
  stream,        \* the request stream and its pipe: piped, ended (the pipe
                 \* ended the decoder), aborted, finished
  totalSize,     \* part_000: let totalSize
  cleanups,      \* const cleanups = []
  part,          \* per file part: decoder side, sink side, timer, flush handle
  reqFiles,      \* req.files
  reqBody,       \* req.body
  waitFlush,     \* req[waitFlushProperty]
  barrier,       \* the Promise.all(...) of the finish listener
  calls,         \* what the processor called so far
  decoder,       \* events delivered to the processor's listeners so far (of
                 \* the decoder, the timers and the request), 'error' events
  effects        \* the ordered calls made by the listener that ran last

vars == <<impl, options, header, phase, wiring, stream, totalSize, cleanups,
          part, reqFiles, reqBody, waitFlush, barrier, calls, decoder,
          effects>>

\* ------------------------------------------------------------ effects
Eff(op, p, n, s) == [op |-> op, part |-> p, n |-> n, s |-> s]
ECleanup(p) == Eff("cleanup", p, 0, "")
ENext(err) == Eff("next", 0, 0, err)
EUnpipe == Eff("unpipe", 0, 0, "")
ELimitHandler == Eff("limitHandler", 0, 0, "")
ETypeError == Eff("TypeError", 0, 0, "")
EWriteHead(code) == Eff("writeHead", 0, code, "Connection: close")
EResEnd(reason) == Eff("end", 0, 0, reason)
EDataHandler(p, n) == Eff("dataHandler", p, n, "")
EProcessNested == Eff("processNested", 0, 0, "")

Ops(effs, op) == {i \in 1..Len(effs) : effs[i].op = op}
CountOp(effs, op) == Cardinality(Ops(effs, op))
CountPartOp(effs, op, p) ==
  Cardinality({i \in Ops(effs, op) : effs[i].part = p})

RECURSIVE SumBytes(_, _)
SumBytes(effs, p) ==
  IF effs = <<>> THEN 0
  ELSE (IF Head(effs).op = "dataHandler" /\ Head(effs).part = p
        THEN Head(effs).n ELSE 0) + SumBytes(Tail(effs), p)

SelectOp(effs, op) == SelectSeq(effs, LAMBDA e : e.op = op)

\* ------------------------------------------------------------ helpers
isFunc(f) == f = "function"

\* JavaScript's ToNumber of a string of decimal digits; "" is 0.
RECURSIVE ToNumber(_)
ToNumber(digits) ==
  IF digits = <<>> THEN 0
  ELSE 10 * ToNumber(SubSeq(digits, 1, Len(digits) - 1)) + digits[Len(digits)]

\* JavaScript's a > b for a header (a string or undefined) and a number or
\* undefined: false as soon as one side is undefined (NaN).
HeaderGreater(h, limit) ==
  /\ h.present
  /\ limit # Undefined
  /\ ToNumber(h.digits) > limit

\* totalSize > options.limits.totalSize
ExceedsTotal(t) == options.totalSize # Undefined /\ t > options.totalSize


\* ------------------------------------------------- collaborators' contracts
EmptyMap(names) == [f \in names |-> <<>>]

\* buildFields(instance, field, value): the first value of a field is stored
\* as it is, later ones make an ordered collection.  An entry is written as
\* the sequence of its values, a single value being the sequence of length 1.
buildFields(instance, field, value) ==
  [instance EXCEPT ![field] = Append(@, value)]

\* fileFactory({name, size, truncated, ...}, options)
fileFactory(p, size, truncated) ==
  [name |-> p, size |-> size, truncated |-> truncated]

\* getWritePromise(): the memory sink writes synchronously, its handle is
\* resolved at once; the temporary-file sink may have writes in flight.
getWritePromise == IF options.useTempFiles THEN "pending" ELSE "resolved"

\* A part before its 'file' event.  timer is the part's uploadTimer: "none"
\* (null), "armed" (a timeout is pending) or "fired"; chunkSinceArmed says
\* that a 'data' event came after the timer was armed last.
NewPart == [st |-> "none", truncated |-> FALSE, received |-> 0, size |-> 0,
            released |-> FALSE, handle |-> "none", timer |-> "none",
            chunkSinceArmed |-> FALSE]

\* lib: setUploadTimer(): clearTimeout(uploadTimer), then a new setTimeout of
\* options.uploadTimeout milliseconds, whatever that value is.
setUploadTimer(pt) == [pt EXCEPT !.timer = "armed", !.chunkSinceArmed = FALSE]

\* ---------------------------------------------------------- the listeners
\* options.limitHandler(req, res, next), called without a test of isFunc.
callLimitHandler ==
  IF isFunc(options.limitHandler) THEN <<ELimitHandler>> ELSE <<ETypeError>>

\* part_000: the body of module.exports up to the first return.
fastReject == HeaderGreater(header, options.totalSize)

cleanAll == [i \in 1..Len(cleanups) |-> ECleanup(cleanups[i])]

abortedListener == cleanAll

\* Mutant of closeConnection: the reason is sent as it was given, without
\* the default body.
closeConnectionReasonAsGiven(code, reason) ==
  << EUnpipe,
     EWriteHead(IF code = Undefined \/ code = 0 THEN DefaultCloseCode ELSE code),
     EResEnd(reason) >>

\* closeConnection(code, reason): req.unpipe(busboy);
\* res.writeHead(code || 400, { Connection: 'close' });
\* res.end(reason || 'Bad Request')
closeConnection(code, reason) ==
  << EUnpipe,
     EWriteHead(IF code = Undefined \/ code = 0 THEN DefaultCloseCode ELSE code),
     EResEnd(IF reason = "" THEN "Bad Request" ELSE reason) >>

\* Mutant of limitListener: the connection is closed on every 'limit' that
\* no limit handler takes, abortOnLimit or not.
limitListenerAlwaysAborts(p) ==
  IF isFunc(options.limitHandler)
  THEN <<EUnpipe>> \o cleanAll \o <<ELimitHandler>>
  ELSE closeConnection(LimitCloseCode, options.responseOnLimit) \o cleanAll

limitListener(p) ==
  IF isFunc(options.limitHandler)
  THEN <<EUnpipe>> \o cleanAll \o <<ELimitHandler>>
  ELSE IF options.abortOnLimit
       THEN closeConnection(LimitCloseCode, options.responseOnLimit) \o cleanAll
       ELSE <<>>

\* Mutant of countChunk: the counter stops counting once it is over the cap.
countChunkUnlessOver(n) ==
  IF ExceedsTotal(totalSize) THEN totalSize ELSE totalSize + n

\* totalSize += data.length
countChunk(n) == totalSize + n

\* Mutant of dataListener: the chunk is written to the sink before the
\* aggregate check.
dataListenerWriteFirst(p, n) ==
  <<EDataHandler(p, n)>>
  \o (IF ExceedsTotal(countChunk(n))
      THEN <<EUnpipe>> \o cleanAll \o callLimitHandler
      ELSE <<>>)

dataListener(p, n) ==
  IF ExceedsTotal(countChunk(n))
  THEN <<EUnpipe>> \o cleanAll \o callLimitHandler
  ELSE <<EDataHandler(p, n)>>

fileErrorListener(p) == cleanAll \o <<ENext("undefined")>>

\* Mutant of handler: the error is not handed on to next.
handlerDropsError(err) ==
  (IF options.parseNested THEN <<EProcessNested>> ELSE <<>>)
  \o <<ENext("undefined")>>

\* const handler = (err) => { if (options.parseNested) {...}; next(err); }
handler(err) ==
  (IF options.parseNested THEN <<EProcessNested>> ELSE <<>>) \o <<ENext(err)>>

finishListener == IF waitFlush.present THEN <<>> ELSE handler("undefined")

errorListener == <<ENext("decoderError")>>

\* src/lib/processMultipart.js
libAbortedListener == [i \in 1..Len(cleanups) |-> ECleanup(cleanups[i])]

libLimitListener(p) ==
  IF isFunc(options.limitHandler)
  THEN <<ELimitHandler>>
  ELSE IF options.abortOnLimit
       THEN closeConnection(LimitCloseCode, options.responseOnLimit)
            \o <<ECleanup(p)>>
       ELSE <<>>

libDataListener(p, n) == <<EDataHandler(p, n)>>

libFileErrorListener(p) == <<ECleanup(p), ENext("undefined")>>

libFinishListener ==
  (IF options.parseNested THEN <<EProcessNested>> ELSE <<>>)
  \o <<ENext("undefined")>>

uploadTimerCallback(p) == <<ECleanup(p)>>

\* ------------------------------------------------------- applying effects
NextArgs(effs) ==
  [i \in 1..Len(SelectOp(effs, "next")) |-> SelectOp(effs, "next")[i].s]
WriteHeadCodes(effs) ==
  [i \in 1..Len(SelectOp(effs, "writeHead")) |-> SelectOp(effs, "writeHead")[i].n]
EndReasons(effs) ==
  [i \in 1..Len(SelectOp(effs, "end")) |-> SelectOp(effs, "end")[i].s]

\* A listener ran and made the calls effs; part1, stream1 and phase1 are the
\* listener's own updates of these variables.
Run(effs, part1, stream1, phase1) ==
  /\ effects' = effs
  /\ part' = [p \in Parts |->
       [part1[p] EXCEPT !.released = @ \/ CountPartOp(effs, "cleanup", p) > 0,
                        !.size = @ + SumBytes(effs, p)]]
  /\ calls' = [next |-> calls.next \o NextArgs(effs),
               limitHandler |-> calls.limitHandler + CountOp(effs, "limitHandler"),
               writeHead |-> calls.writeHead \o WriteHeadCodes(effs),
               end |-> calls.end \o EndReasons(effs)]
  /\ stream' = [stream1 EXCEPT !.piped = @ /\ CountOp(effs, "unpipe") = 0]
  \* an exception thrown out of a listener is uncaught: the session is over
  /\ phase' = IF CountOp(effs, "TypeError") > 0 THEN "crashed" ELSE phase1

\* ------------------------------------------------------------------ Init
Headers ==
  { [present |-> FALSE, digits |-> <<>>],
    [present |-> TRUE, digits |-> <<2>>],
    [present |-> TRUE, digits |-> <<1, 0>>] }

Handlers == {"function", "false"}

OptionSets ==
  [ useTempFiles : BOOLEAN,
    limitHandler : Handlers,
    abortOnLimit : BOOLEAN,
    responseOnLimit : {"", "File size limit has been reached"},
    parseNested : BOOLEAN,
    totalSize : {Undefined, TotalCap},
    fileSize : {Undefined, FileCap},
    uploadTimeout : {0, 60000} ]

\* An option that the run cannot read keeps one value.
Relevant(i, o, h) ==
  /\ (o.responseOnLimit # "") =>
        (o.abortOnLimit /\ ~isFunc(o.limitHandler) /\ o.fileSize # Undefined)
  /\ o.abortOnLimit => o.fileSize # Undefined
  /\ i = "lib" => (~o.useTempFiles /\ o.totalSize = Undefined /\ ~h.present)
  /\ i = "part_000" => o.uploadTimeout = 0
  /\ h.present <=> o.totalSize # Undefined

Init ==
  /\ impl \in {"part_000", "lib"}
  /\ options \in OptionSets
  /\ header \in Headers
  /\ Relevant(impl, options, header)
  /\ phase = "idle"
  /\ wiring = [abortListener |-> FALSE, busboy |-> FALSE]
  /\ stream = [piped |-> FALSE, ended |-> FALSE, aborted |-> FALSE,
               finished |-> FALSE]
  /\ totalSize = 0
  /\ cleanups = <<>>
  /\ part = [p \in Parts |-> NewPart]
  /\ reqFiles = EmptyMap({FileField})
  /\ reqBody = EmptyMap({BodyField})
  /\ waitFlush = [present |-> FALSE, handles |-> <<>>]
  /\ barrier = "none"
  /\ calls = [next |-> <<>>, limitHandler |-> 0,
              writeHead |-> <<>>, end |-> <<>>]
  /\ decoder = [events |-> 0, errors |-> 0]
  /\ effects = <<>>


\* --------------------------------------------------------------- actions
Handles == waitFlush.handles
AllResolved == \A i \in 1..Len(Handles) : part[Handles[i]].handle = "resolved"
SomeRejected == \E i \in 1..Len(Handles) : part[Handles[i]].handle = "rejected"

\* A settled Promise.all runs its reaction before any further event.
MicrotaskReady == barrier = "waiting" /\ (AllResolved \/ SomeRejected)

\* The decoder can still deliver an event (MaxEvents bounds the events that
\* a session delivers to the listeners the processor registered: on the
\* decoder, on the file parts, on the request and for the idle timers).
Active ==
  /\ phase = "streaming" /\ ~stream.finished /\ ~MicrotaskReady
  /\ decoder.events < MaxEvents

\* module.exports = (options, req, res, next) => { ... req.pipe(busboy) }
Process ==
  /\ phase = "idle"
  /\ reqFiles' = EmptyMap({FileField})
  /\ totalSize' = 0
  /\ IF impl = "part_000" /\ fastReject
     THEN /\ Run(callLimitHandler, part, stream, "rejected")
          /\ UNCHANGED <<wiring, cleanups>>
     ELSE /\ Run(<<>>, part,
                 [stream EXCEPT !.piped = TRUE], "streaming")
          /\ wiring' = [abortListener |-> TRUE, busboy |-> TRUE]
          /\ cleanups' = <<>>
  /\ UNCHANGED <<impl, options, header, reqBody, waitFlush, barrier, decoder>>

\* req.on('aborted', ...): the socket was closed before the response was
\* finished.  The http server emits 'aborted' once; up to Node 14 it does so
\* also when the request's 'end', or the decoder's 'finish', has passed.
ReqAborted ==
  /\ phase = "streaming" /\ wiring.abortListener
  /\ ~stream.aborted /\ ~MicrotaskReady
  /\ decoder.events < MaxEvents
  /\ decoder' = [decoder EXCEPT !.events = @ + 1]
  /\ Run(IF impl = "part_000" THEN abortedListener ELSE libAbortedListener,
         part, [stream EXCEPT !.aborted = TRUE], phase)
  /\ UNCHANGED <<impl, options, header, wiring, totalSize, cleanups, reqFiles,
                 reqBody, waitFlush, barrier>>

\* req.pipe(busboy): the request's 'end' ends the decoder (the pipe calls
\* busboy.end()), as long as the request is still piped into it; the pipe
\* itself stays in place.  What the decoder has taken in by then is still to
\* be delivered.  The 'aborted' listener leaves the pipe alone, so an 'end'
\* that the http server delivers after 'aborted' (up to Node 14) ends the
\* decoder as well.
ReqEnd ==
  /\ phase = "streaming" /\ ~MicrotaskReady
  /\ stream.piped /\ ~stream.ended
  /\ Run(<<>>, part, [stream EXCEPT !.ended = TRUE], phase)
  /\ UNCHANGED <<impl, options, header, wiring, totalSize, cleanups, reqFiles,
                 reqBody, waitFlush, barrier, decoder>>

\* req.pipe(busboy): ended, the decoder is destroyed on its own by the Node
\* versions that destroy a finished writable, and its 'close' makes the pipe
\* unpipe the request, at some point before the decoder's 'finish' is
\* delivered; listeners of the file parts may run in between.  The older
\* versions leave the pipe until 'finish'.
DecoderClose ==
  /\ phase = "streaming" /\ ~MicrotaskReady
  /\ stream.piped /\ stream.ended /\ ~stream.finished
  /\ Run(<<>>, part, [stream EXCEPT !.piped = FALSE], phase)
  /\ UNCHANGED <<impl, options, header, wiring, totalSize, cleanups, reqFiles,
                 reqBody, waitFlush, barrier, decoder>>

\* busboy.on('field', (field, val) => req.body = buildFields(req.body, field, val))
BusboyField(val) ==
  /\ Active
  /\ reqBody' = buildFields(reqBody, BodyField, val)
  /\ decoder' = [decoder EXCEPT !.events = @ + 1]
  /\ Run(<<>>, part, stream, phase)
  /\ UNCHANGED <<impl, options, header, wiring, totalSize, cleanups, reqFiles,
                 waitFlush, barrier>>

\* busboy.on('file', ...): a new file part; its sink's cleanup is registered.
BusboyFile(p) ==
  /\ Active
  /\ decoder' = [decoder EXCEPT !.events = @ + 1]
  /\ part[p].st = "none" /\ \A q \in 1..(p - 1) : part[q].st # "none"
  /\ cleanups' = Append(cleanups, p)
  /\ Run(<<>>,
         [part EXCEPT ![p] = IF impl = "lib"
                               THEN setUploadTimer([@ EXCEPT !.st = "open"])
                               ELSE [@ EXCEPT !.st = "open"]],
         stream, phase)
  /\ UNCHANGED <<impl, options, header, wiring, totalSize, reqFiles, reqBody,
                 waitFlush, barrier>>

\* file.on('limit', ...): the decoder delivered limits.fileSize bytes of the
\* part and drops the rest.
FileLimit(p) ==
  /\ Active
  /\ decoder' = [decoder EXCEPT !.events = @ + 1] /\ part[p].st = "open" /\ ~part[p].truncated
  /\ \A q \in Parts : q > p => part[q].st = "none"
  /\ options.fileSize # Undefined /\ part[p].received = options.fileSize
  /\ Run(IF impl = "part_000" THEN limitListener(p) ELSE libLimitListener(p),
         [part EXCEPT ![p].truncated = TRUE], stream, phase)
  /\ UNCHANGED <<impl, options, header, wiring, totalSize, cleanups, reqFiles,
                 reqBody, waitFlush, barrier>>

\* file.on('data', ...)
FileData(p, n) ==
  /\ Active
  /\ decoder' = [decoder EXCEPT !.events = @ + 1] /\ part[p].st = "open" /\ ~part[p].truncated
  /\ \A q \in Parts : q > p => part[q].st = "none"
  /\ options.fileSize # Undefined => part[p].received + n <= options.fileSize
  /\ totalSize' = IF impl = "part_000" THEN countChunk(n) ELSE totalSize
  /\ Run(IF impl = "part_000" THEN dataListener(p, n) ELSE libDataListener(p, n),
         [part EXCEPT ![p].received = @ + n,
                      ![p].chunkSinceArmed = @ \/ part[p].timer = "armed"],
         stream, phase)
  /\ UNCHANGED <<impl, options, header, wiring, cleanups, reqFiles, reqBody,
                 waitFlush, barrier>>

\* file.on('end', ...)
FileEnd(p) ==
  /\ Active
  /\ decoder' = [decoder EXCEPT !.events = @ + 1] /\ part[p].st = "open"
  /\ reqFiles' = buildFields(reqFiles, FileField,
                             fileFactory(p, part[p].size, part[p].truncated))
  /\ IF impl = "part_000"
     THEN /\ waitFlush' = [present |-> TRUE, handles |-> Append(waitFlush.handles, p)]
          /\ Run(<<>>,
                 [part EXCEPT ![p].st = "ended", ![p].handle = getWritePromise],
                 stream, phase)
     ELSE /\ UNCHANGED waitFlush
          /\ Run(<<>>, [part EXCEPT ![p].st = "ended"],
                 stream, phase)
  /\ UNCHANGED <<impl, options, header, wiring, totalSize, cleanups, reqBody,
                 barrier>>

\* file.on('error', ...)
FileError(p) ==
  /\ Active
  /\ decoder' = [decoder EXCEPT !.events = @ + 1] /\ part[p].st = "open"
  /\ Run(IF impl = "part_000" THEN fileErrorListener(p) ELSE libFileErrorListener(p),
         [part EXCEPT ![p].st = "errored"], stream, phase)
  /\ UNCHANGED <<impl, options, header, wiring, totalSize, cleanups, reqFiles,
                 reqBody, waitFlush, barrier>>

\* busboy.on('error', next): the decoder reports an error, once at most.
\* The pipe of req.pipe(busboy) listens to the decoder's 'error' too and
\* unpipes the request.
BusboyError ==
  /\ Active /\ decoder.errors = 0
  /\ decoder' = [decoder EXCEPT !.errors = @ + 1, !.events = @ + 1]
  /\ Run(errorListener, part, [stream EXCEPT !.piped = FALSE], phase)
  /\ UNCHANGED <<impl, options, header, wiring, totalSize, cleanups, reqFiles,
                 reqBody, waitFlush, barrier>>

\* busboy.on('finish', ...): req.pipe(busboy) ended the decoder at the end of
\* the request, and every part the decoder delivered has had its last event.
\* The pipe unpipes the request on the decoder's 'finish'.
BusboyFinish ==
  /\ Active
  /\ decoder' = [decoder EXCEPT !.events = @ + 1] /\ stream.ended
  /\ \A p \in Parts : part[p].st # "open"
  /\ barrier' = IF impl = "part_000" /\ waitFlush.present THEN "waiting" ELSE barrier
  /\ Run(IF impl = "part_000" THEN finishListener ELSE libFinishListener,
         part, [stream EXCEPT !.finished = TRUE, !.piped = FALSE], phase)
  /\ UNCHANGED <<impl, options, header, wiring, totalSize, cleanups, reqFiles,
                 reqBody, waitFlush>>

\* Promise.all(req[waitFlushProperty]).then(() => { delete ...; handler(); })
FlushThen ==
  /\ phase = "streaming" /\ barrier = "waiting" /\ AllResolved
  /\ barrier' = "settled"
  /\ waitFlush' = [present |-> FALSE, handles |-> <<>>]
  /\ Run(handler("undefined"), part, stream, phase)
  /\ UNCHANGED <<impl, options, header, wiring, totalSize, cleanups, reqFiles,
                 reqBody, decoder>>

\* .catch(err => { delete ...; handler(err); })
FlushCatch ==
  /\ phase = "streaming" /\ barrier = "waiting" /\ SomeRejected
  /\ barrier' = "settled"
  /\ waitFlush' = [present |-> FALSE, handles |-> <<>>]
  /\ Run(handler("flushError"), part, stream, phase)
  /\ UNCHANGED <<impl, options, header, wiring, totalSize, cleanups, reqFiles,
                 reqBody, decoder>>

\* The temporary-file sink's pending writes of part p complete or fail.
WriteSettled(p, outcome) ==
  /\ phase = "streaming" /\ ~MicrotaskReady
  /\ part[p].handle = "pending"
  /\ Run(<<>>, [part EXCEPT ![p].handle = outcome],
         stream, phase)
  /\ UNCHANGED <<impl, options, header, wiring, totalSize, cleanups, reqFiles,
                 reqBody, waitFlush, barrier, decoder>>

\* lib: the callback of setTimeout(..., timeout) set by setUploadTimer().
UploadTimeout(p) ==
  /\ phase = "streaming" /\ ~MicrotaskReady
  /\ decoder.events < MaxEvents
  /\ part[p].timer = "armed"
  /\ decoder' = [decoder EXCEPT !.events = @ + 1]
  /\ Run(uploadTimerCallback(p),
         [part EXCEPT ![p].timer = "fired"], stream, phase)
  /\ UNCHANGED <<impl, options, header, wiring, totalSize, cleanups, reqFiles,
                 reqBody, waitFlush, barrier>>

Next ==
  \/ Process
  \/ ReqAborted
  \/ ReqEnd
  \/ DecoderClose
  \/ \E v \in {"a"} : BusboyField(v)
  \/ \E p \in Parts : BusboyFile(p)
  \/ \E p \in Parts : FileLimit(p)
  \/ \E p \in Parts, n \in 1..MaxChunkLen : FileData(p, n)
  \/ \E p \in Parts : FileEnd(p)
  \/ \E p \in Parts : FileError(p)
  \/ BusboyError
  \/ BusboyFinish
  \/ FlushThen
  \/ FlushCatch
  \/ \E p \in Parts, o \in {"resolved", "rejected"} : WriteSettled(p, o)
  \/ \E p \in Parts : UploadTimeout(p)

Spec == Init /\ [][Next]_vars


\* ---------------------------------------------------------------- claims
\* Which event a step delivers, read from what the step changes.
NextInvoked == Len(calls'.next) > Len(calls.next)
AbortStep == ~stream.aborted /\ stream'.aborted
DecoderErrorStep == decoder'.errors > decoder.errors
LimitStep(p) == ~part[p].truncated /\ part'[p].truncated

RECURSIVE SumSize(_)
SumSize(ps) ==
  IF ps = {} THEN 0
  ELSE LET p == CHOOSE q \in ps : TRUE IN part[p].size + SumSize(ps \ {p})

\* The bytes forwarded to the dataHandler of all sinks of the session.
Forwarded == SumSize(Parts)

\* The content-length header, read as a number, exceeds limits.totalSize.
DeclaredTooLong ==
  /\ header.present /\ options.totalSize # Undefined
  /\ ToNumber(header.digits) > options.totalSize

\* C1: in part_000 the completion callback next is invoked at most once in a
\* session, whatever the sequence of decoder events, file-part events and
\* transport abort.
C1_NextAtMostOnce == impl = "part_000" => Len(calls.next) <= 1

\* C2: in part_000, whenever next is invoked, every flush handle that a file
\* part's 'end' registered has already settled (resolved or rejected).
C2_NextAfterHandlesSettled ==
  [][(impl = "part_000" /\ NextInvoked) =>
       \A p \in Parts : part[p].handle \in {"none", "resolved", "rejected"}]_vars

\* The fast-reject path, as far as it does not depend on the limit handler:
\* the decoder is not constructed, no abort listener, no sink, no cleanup,
\* and the processor does not invoke next.
NothingConstructed ==
  /\ ~wiring.busboy /\ ~wiring.abortListener
  /\ \A p \in Parts : part[p].st = "none"
  /\ cleanups = <<>>
  /\ calls.next = <<>>

\* C3: in part_000, for every request whose content-length exceeds
\* limits.totalSize the limit handler is invoked exactly once and nothing is
\* constructed: no decoder, no abort listener, no sink, no cleanup, and the
\* processor does not invoke next.
C3_FastRejectAlways ==
  (impl = "part_000" /\ DeclaredTooLong /\ phase # "idle") =>
     (calls.limitHandler = 1 /\ NothingConstructed)

\* C4: in part_000 the bytes forwarded to the dataHandler of all sinks of
\* the session never exceed limits.totalSize.
C4_ForwardedWithinCap ==
  (impl = "part_000" /\ options.totalSize # Undefined) =>
     Forwarded <= options.totalSize

\* A chunk made the counter exceed the cap and was not forwarded.
C4_Witness ==
  /\ impl = "part_000" /\ ExceedsTotal(totalSize)
  /\ Forwarded > 0 /\ Forwarded < totalSize

\* A 'data' event whose chunk leaves the aggregate counter above the cap.
OverflowStep ==
  /\ \E p \in Parts : part'[p].received > part[p].received
  /\ ExceedsTotal(totalSize')

\* C5: in part_000, when a data chunk makes the aggregate counter exceed
\* limits.totalSize, the source is detached, every sink created so far is
\* cleaned up, and the limit handler has been invoked exactly once in the
\* session, also when the chunk comes after the overflow.  (Stated for the
\* sessions where the limit handler is a function and no per-file limit is
\* configured, so that the aggregate limit is the only caller of the
\* handler.)
C5_LimitHandlerOnceOnOverflow ==
  [][(/\ impl = "part_000" /\ OverflowStep
      /\ isFunc(options.limitHandler) /\ options.fileSize = Undefined) =>
       /\ ~stream'.piped
       /\ \A i \in 1..Len(cleanups) : part'[cleanups[i]].released
       /\ calls'.limitHandler = 1]_vars

\* The calls a full session cleanup makes: every registered cleanup action
\* once, in registration order.
FullCleanup == [i \in 1..Len(cleanups) |-> ECleanup(cleanups[i])]

\* C6: after a transport 'aborted' event no later event invokes next, and
\* no artifact is added to req.files (the parts that had reached 'end'
\* before the abort have theirs already).
C6_NothingAfterAbort ==
  [][stream.aborted => (calls'.next = calls.next /\ reqFiles' = reqFiles)]_vars

\* C7: the 'aborted' listener invokes the cleanup action of every sink
\* registered so far exactly once, in registration order, and detaches the
\* source stream from the decoder.
C7_AbortCleansAndDetaches ==
  [][AbortStep =>
       /\ SelectOp(effects', "cleanup") = FullCleanup
       /\ ~stream'.piped]_vars

\* C8: on a decoder 'error' event the cleanup action of every sink created
\* so far is run and only then next is invoked with the error.
C8_DecoderErrorCleansThenNext ==
  [][DecoderErrorStep =>
       effects' = FullCleanup \o <<ENext("decoderError")>>]_vars

\* C9: on a part's 'limit' event: with a limit handler, the handler is
\* invoked and the connection is not closed by the default path; otherwise
\* with abortOnLimit the connection is closed and the cleanup actions of all
\* sinks of the session are run; otherwise the listener does nothing.
C9_LimitOutcomes ==
  [][\A p \in Parts : LimitStep(p) =>
       IF isFunc(options.limitHandler)
       THEN /\ CountOp(effects', "limitHandler") = 1
            /\ CountOp(effects', "writeHead") = 0
            /\ CountOp(effects', "end") = 0
       ELSE IF options.abortOnLimit
            THEN /\ CountOp(effects', "limitHandler") = 0
                 /\ CountOp(effects', "writeHead") = 1
                 /\ CountOp(effects', "end") = 1
                 /\ ~stream'.piped
                 /\ SelectOp(effects', "cleanup") = FullCleanup
            ELSE /\ effects' = <<>>
                 /\ calls' = calls
                 /\ \A q \in Parts : part'[q].released = part[q].released]_vars

\* The session of C10: neither limit handler nor abortOnLimit, one file part
\* only, which exceeded limits.fileSize and ended, the decoder finished and
\* the flush barrier is through; no abort, no decoder error, no aggregate
\* overflow, no failed write, the part's sink not released by its idle timer.
C10_Session ==
  /\ ~isFunc(options.limitHandler) /\ ~options.abortOnLimit
  /\ options.fileSize # Undefined
  /\ part[1].st = "ended" /\ part[1].truncated
  /\ \A q \in Parts \ {1} : part[q].st = "none"
  /\ stream.finished /\ barrier # "waiting"
  /\ ~stream.aborted /\ decoder.errors = 0 /\ ~ExceedsTotal(totalSize)
  /\ part[1].handle # "rejected" /\ ~part[1].released

\* C10: a single file part that exceeds limits.fileSize, with abortOnLimit
\* false and no limit handler: next is invoked once, with no error;
\* req.files holds one artifact of the part, truncated, of the size
\* delivered to its sink, which is limits.fileSize; and the connection is
\* never closed, at any point of such a configuration's sessions.
C10_TruncatedArtifact ==
  /\ C10_Session =>
       /\ calls.next = <<"undefined">>
       /\ reqFiles[FileField] = <<fileFactory(1, options.fileSize, TRUE)>>
       /\ part[1].size = options.fileSize
  /\ (~isFunc(options.limitHandler) /\ ~options.abortOnLimit) =>
       (calls.writeHead = <<>> /\ calls.end = <<>>)

C10_Witness == C10_Session /\ calls.next = <<"undefined">>

\* The artifacts of req.files, in the order they were added.
Artifacts == reqFiles[FileField]

\* A per-file limit fired on part p and was acted on (limit handler or
\* abortOnLimit).
LimitFiredOn(p) ==
  part[p].truncated /\ (isFunc(options.limitHandler) \/ options.abortOnLimit)

\* The aggregate limit fired on part p: a chunk of p was counted and not
\* forwarded to the sink.
AggregateFiredOn(p) == part[p].received > part[p].size

\* C11: req.files holds at most one artifact per file part, and none of a
\* part on which a per-file limit (with limit handler or abortOnLimit) or
\* the aggregate limit fired or a stream error was reported, whatever the
\* decoder delivers afterwards.
C11_ArtifactOnlyFromSuccess ==
  /\ \A i, j \in 1..Len(Artifacts) :
       Artifacts[i].name = Artifacts[j].name => i = j
  /\ \A i \in 1..Len(Artifacts) :
       /\ ~LimitFiredOn(Artifacts[i].name)
       /\ ~AggregateFiredOn(Artifacts[i].name)
       /\ part[Artifacts[i].name].st # "errored"

\* The idle timer of part p fires: the callback of its setTimeout runs.
TimerFires(p) == part[p].timer = "armed" /\ part'[p].timer = "fired"

\* C12: in lib, the idle timer of a part fires only if no chunk of the part
\* arrived during the last uploadTimeout milliseconds.  A timer fires
\* uploadTimeout milliseconds after it was armed last, so a chunk that came
\* after the last arming came within that time: the timer is to fire only
\* when no 'data' event followed its last arming.
C12_TimerFiresOnlyWhenIdle ==
  [][\A p \in Parts :
       (impl = "lib" /\ options.uploadTimeout > 0 /\ TimerFires(p)) =>
          ~part[p].chunkSinceArmed]_vars

\* C13: in lib, the idle timer of a part does not fire after the part's
\* 'end' or 'error', after a limit was acted on for the part, or after the
\* request was aborted with the part started (the abort released its sink).
C13_TimerCanceledOnTerminal ==
  [][\A p \in Parts : (impl = "lib" /\ TimerFires(p)) =>
       /\ part[p].st = "open"
       /\ ~LimitFiredOn(p)
       /\ ~(stream.aborted /\ part[p].released)]_vars

\* C14: in lib with uploadTimeout 0, no part has an idle timer, armed or
\* fired, so that no cleanup is run by a timeout.
C14_NoTimerWhenDisabled ==
  (impl = "lib" /\ options.uploadTimeout = 0) =>
     \A p \in Parts : part[p].timer = "none"

\* A 'limit' event of part p that closes the connection: abortOnLimit set
\* and no limit handler.
LimitCloseStep(p) ==
  LimitStep(p) /\ ~isFunc(options.limitHandler) /\ options.abortOnLimit

\* What the listener that ran did to the connection, in order.
ConnectionCalls(effs) ==
  SelectSeq(effs, LAMBDA e : e.op \in {"unpipe", "writeHead", "end"})

\* The body sent when the limit closes the connection.
LimitBody ==
  IF options.responseOnLimit = "" THEN "Bad Request" ELSE options.responseOnLimit

\* C15 (as stated): when the per-file limit closes the connection, the
\* status written is the default 400 (no option of the processor configures
\* another), the body is responseOnLimit or "Bad Request", and the
\* connection is closed.
C15_LimitCloseDefaultStatus ==
  [][\A p \in Parts : LimitCloseStep(p) =>
       ConnectionCalls(effects') =
         <<EUnpipe, EWriteHead(DefaultCloseCode), EResEnd(LimitBody)>>]_vars

\* C15 (amended): when the per-file limit closes the connection, the source
\* is detached, then the status 413 is written with the header
\* Connection: close, then the body responseOnLimit or, when that is not
\* configured, "Bad Request"; nothing else is written to the response.
C15_LimitCloseStatus413 ==
  [][\A p \in Parts : LimitCloseStep(p) =>
       /\ ConnectionCalls(effects') =
            <<EUnpipe, EWriteHead(LimitCloseCode), EResEnd(LimitBody)>>
       /\ ~stream'.piped
       /\ calls'.writeHead = Append(calls.writeHead, LimitCloseCode)
       /\ calls'.end = Append(calls.end, LimitBody)]_vars

\* The limit closed the connection of a session without responseOnLimit.
C15_Witness ==
  /\ ~isFunc(options.limitHandler) /\ options.abortOnLimit
  /\ options.responseOnLimit = ""
  /\ \E p \in Parts : part[p].truncated
  /\ calls.writeHead = <<LimitCloseCode>> /\ calls.end = <<"Bad Request">>
  /\ ~stream.piped

RECURSIVE SumReceived(_)
SumReceived(ps) ==
  IF ps = {} THEN 0
  ELSE LET p == CHOOSE q \in ps : TRUE
       IN part[p].received + SumReceived(ps \ {p})

\* The bytes of all 'data' events the decoder delivered in the session.
Received == SumReceived(Parts)

\* C16 (as stated): in part_000, totalSize never decreases and equals the
\* sum of the bytes delivered to the data handlers of all sinks.
C16_CounterEqualsDelivered ==
  [][impl = "part_000" =>
       (totalSize' >= totalSize /\ totalSize' = Forwarded')]_vars

\* C16 (amended): in part_000, totalSize never decreases and equals the sum
\* of the bytes of all 'data' events delivered by the decoder; it equals the
\* sum delivered to the sinks' data handlers as long as it has not exceeded
\* limits.totalSize, and is larger once it has.
C16_CounterEqualsReceived ==
  [][impl = "part_000" =>
       /\ totalSize' >= totalSize
       /\ totalSize' = Received'
       /\ IF ExceedsTotal(totalSize')
          THEN Forwarded' < totalSize'
          ELSE Forwarded' = totalSize']_vars

\* The second part's chunk took the counter over the cap.
C16_Witness ==
  /\ impl = "part_000" /\ ExceedsTotal(totalSize)
  /\ part[1].size > 0 /\ part[2].received > part[2].size
  /\ totalSize = Received /\ Forwarded < totalSize

\* C17: in part_000 the aggregate counter exceeds limits.totalSize by at
\* most the size of one chunk (no chunk is longer than MaxChunkLen), whatever
\* number of 'data' events follows the first overflow.
C17_OverflowAtMostOneChunk ==
  (impl = "part_000" /\ options.totalSize # Undefined) =>
     totalSize <= options.totalSize + MaxChunkLen

\* The session reached a terminal state: completed or errored (next was
\* invoked), aborted, or a limit was exceeded (the limit handler was
\* invoked or the connection was closed).
SessionTerminal ==
  \/ calls.next # <<>>
  \/ stream.aborted
  \/ calls.limitHandler > 0
  \/ calls.end # <<>>

\* req[waitFlushProperty] is deleted by this step.
FlushCleared == waitFlush.present /\ ~waitFlush'.present

\* C18: in part_000, req[waitFlushProperty] is deleted at most once in a
\* session (no deletion after the barrier has settled), and it is not
\* present when the session reaches a terminal state.
C18_FlushSetCleared ==
  [][impl = "part_000" =>
       /\ FlushCleared => barrier # "settled"
       /\ (~SessionTerminal /\ SessionTerminal') => ~waitFlush'.present]_vars

\* The decoder's 'finish' is delivered by this step.
FinishStep == ~stream.finished /\ stream'.finished

\* The flush barrier of the 'finish' listener settles in this step.
BarrierSettles == barrier = "waiting" /\ barrier' = "settled"

\* What the completion makes of the mappings and of next: req.body and
\* req.files are nested-expanded when parseNested is set, and only then next
\* is called, with err.
Completion(err) ==
  IF options.parseNested
  THEN <<EProcessNested, ENext(err)>>
  ELSE <<ENext(err)>>

\* C19: in part_000, after the decoder's 'finish': with no flush handle
\* registered, next is invoked at once with no error; with handles
\* registered, nothing is called before the barrier settles, and then next
\* is invoked with no error when every handle resolved, and with the
\* rejection error when one rejected.  In each case the mappings built so far
\* are left as they are, nested-expanded before next when parseNested is set,
\* and the handles are waited for only after 'finish'.
C19_FinishCompletion ==
  [][impl = "part_000" =>
       /\ FinishStep =>
            /\ effects' = (IF waitFlush.present THEN <<>>
                           ELSE Completion("undefined"))
            /\ barrier' = (IF waitFlush.present THEN "waiting" ELSE barrier)
       /\ BarrierSettles =>
            /\ stream.finished
            /\ AllResolved \/ SomeRejected
            /\ AllResolved => effects' = Completion("undefined")
            /\ SomeRejected => effects' = Completion("flushError")
       /\ (FinishStep \/ BarrierSettles) =>
            (reqFiles' = reqFiles /\ reqBody' = reqBody)]_vars

\* A write failed after 'finish' and next received the error, the mappings
\* nested-expanded.
C19_Witness ==
  /\ impl = "part_000" /\ options.parseNested
  /\ stream.finished /\ barrier = "settled"
  /\ Artifacts # <<>>
  /\ effects = <<EProcessNested, ENext("flushError")>>

\* This step adds the artifact of part p to req.files.
ArtifactAdded(p) ==
  /\ Len(reqFiles'[FileField]) = Len(reqFiles[FileField]) + 1
  /\ reqFiles'[FileField][Len(reqFiles'[FileField])].name = p

\* C20: an artifact enters req.files only from a sink whose cleanup action
\* had not been invoked before the part's 'end' event, whoever invoked it
\* (idle timer, abort, limit or error of any part).
C20_NoArtifactFromReleasedSink ==
  [][\A p \in Parts : ArtifactAdded(p) => ~part[p].released]_vars

=============================================================================
